---- MODULE Spec2Model ----
(***************************************************************************)
(* A model of patricia/ptree.py: the nibble codec, the three node kinds    *)
(* (Branch, Extension, Leaf) with get / set / seal / clone, and the        *)
(* PatriciaTree container.                                                 *)
(*                                                                         *)
(* Python objects live in one heap (a sequence of cells, an object's       *)
(* address is its index).  Nodes and Python lists are heap cells, so that  *)
(* sharing of a node or of a path list between two places is visible.      *)
(* bytes, None and digests are immutable and are modelled as values.       *)
(***************************************************************************)
EXTENDS Integers, Sequences, FiniteSets, TLC

\* ---------------------------------------------------------------- bounds
\* Keys are byte strings of at most MaxKeyLen bytes over KeyBytes.
MaxKeyLen == 2
\* At most MaxSets calls of set (accepted or rejected) in one behaviour.
MaxSets == 3
\* At most MaxTrees PatriciaTree objects exist in one behaviour.
MaxTrees == 2
\* At most MaxForkSets of the calls of set come after the first fork.
MaxForkSets == 1
\* The two tries built in two orders hold at most MaxOrderKeys keys.
MaxOrderKeys == 3
\* At most MaxLateSets calls of set come on top of the MaxSets, each right
\* after a call of seal.
MaxLateSets == 1
\* bytes_to_nibbles is applied to byte strings of at most MaxCodecLen bytes
\* over CodecBytes.
MaxCodecLen == 3

\* 0x00, 0x10: nibble pairs (0,0), (0,1)
KeyBytes == {0, 16}
\* b"" and b"\x01"
Values == {<< >>, <<1>>}
\* 0x00, 0x0f, 0xf0, 0xff
CodecBytes == {0, 15, 240, 255}

\* ------------------------------------------------------ program constants
BITS_PER_NIBBLE == 4
BRANCHING_FACTOR == 2 ^ BITS_PER_NIBBLE

\* ---------------------------------------------------------- Python values
None == [t |-> "None"]
PyBytes(b) == [t |-> "bytes", b |-> b]
PyInt(n) == [t |-> "int", v |-> n]
\* a reference to a heap object that is used as a value
PyRef(a) == [t |-> "ref", id |-> a]
\* a Python list taken by value (its items at the time it is read)
PyList(items) == [t |-> "list", items |-> items]

\* the outcome of a call: the heap it leaves, what it returns, what it raises
Ret(h, v) == [heap |-> h, ret |-> v, exc |-> "none"]
Raise(h, e) == [heap |-> h, ret |-> None, exc |-> e]

\* ------------------------------------------------------------- heap cells
ListCell(items) == [kind |-> "list", items |-> items]
NoChildren == [i \in 0..(BRANCHING_FACTOR - 1) |-> 0]
NewBranch == [kind |-> "Branch", children |-> NoChildren, data |-> None, hash |-> None]
NewExtension(path, child) == [kind |-> "Extension", path |-> path, child |-> child, hash |-> None]
NewLeaf(suffix, data) == [kind |-> "Leaf", suffix |-> suffix, data |-> data, hash |-> None]

Alloc(h, cell) == Append(h, cell)
Items(h, l) == h[l].items
\* list.pop(0)
Pop0(h, l) == [h EXCEPT ![l].items = Tail(@)]
\* list[from:], list[:to] as fresh sequences (0-based Python slice bounds)
SliceFrom(s, from) == SubSeq(s, from + 1, Len(s))
SliceTo(s, to) == SubSeq(s, 1, to)

\* ------------------------------------------------------------ nibble codec
\* Mutant: the high nibble of each byte is appended before the low one.
RECURSIVE HighNibbleFirst(_)
HighNibbleFirst(key) ==
    IF key = << >> THEN << >>
    ELSE <<Head(key) \div BRANCHING_FACTOR, Head(key) % BRANCHING_FACTOR>>
            \o HighNibbleFirst(Tail(key))

RECURSIVE bytes_to_nibbles(_)
bytes_to_nibbles(key) ==
    IF key = << >> THEN << >>
    ELSE <<Head(key) % BRANCHING_FACTOR, Head(key) \div BRANCHING_FACTOR>>
            \o bytes_to_nibbles(Tail(key))

\* ------------------------------------------------------------------- get
RECURSIVE NodeGet(_, _, _)

BranchGet(h, n, p) ==
    IF Len(Items(h, p)) = 0 THEN Ret(h, h[n].data)
    ELSE LET idx == Head(Items(h, p))
             h1 == Pop0(h, p)
             child == h1[n].children[idx]
         IN  IF child = 0 THEN Ret(h1, None) ELSE NodeGet(h1, child, p)

ExtensionGet(h, n, p) ==
    LET path == Items(h, p)
        own == Items(h, h[n].path)
    IN  IF Len(path) < Len(own) THEN Ret(h, None)
        ELSE LET h1 == Alloc(h, ListCell(SliceTo(path, Len(own))))
                 prefix == Len(h1)
             IN  IF Items(h1, prefix) # own THEN Ret(h1, None)
                 ELSE LET h2 == Alloc(h1, ListCell(SliceFrom(path, Len(own))))
                      IN  NodeGet(h2, h2[n].child, Len(h2))

\* Mutant: the comparison consumes the stored suffix when it matches.
LeafGetConsumes(h, n, p) ==
    IF Items(h, p) # Items(h, h[n].suffix) THEN Ret(h, None)
    ELSE Ret([h EXCEPT ![h[n].suffix].items = << >>], h[n].data)

LeafGet(h, n, p) ==
    IF Items(h, p) # Items(h, h[n].suffix) THEN Ret(h, None) ELSE Ret(h, h[n].data)

\* child.get(path): dispatch on the class of the object
NodeGet(h, n, p) ==
    CASE h[n].kind = "Branch" -> BranchGet(h, n, p)
      [] h[n].kind = "Extension" -> ExtensionGet(h, n, p)
      [] h[n].kind = "Leaf" -> LeafGet(h, n, p)
      [] OTHER -> Raise(h, "AttributeError")

\* ------------------------------------------------------------------- set
\* The prefix loop of the Extension and Leaf cases: while the stored list
\* (at address own) is longer than pos and path is non-empty and
\* path[0] == own[pos], pop path and advance pos.
RECURSIVE PrefixLoop(_, _, _, _)
PrefixLoop(h, p, own, pos) ==
    IF /\ Len(Items(h, own)) > pos
       /\ Len(Items(h, p)) > 0
       /\ Items(h, p)[1] = Items(h, own)[pos + 1]
    THEN PrefixLoop(Pop0(h, p), p, own, pos + 1)
    ELSE [heap |-> h, pos |-> pos]

RECURSIVE BranchSet(_, _, _, _)

\* Leaf.set
LeafSet(h, n, p, data) ==
    IF h[n].hash # None THEN Raise(h, "AssertionError")
    ELSE IF Items(h, p) # Items(h, h[n].suffix) THEN Raise(h, "AssertionError")
    ELSE Ret([h EXCEPT ![n].data = data], None)

\* child.child.set(path, data): dispatch on the class of the object
NodeSet(h, n, p, data) ==
    CASE h[n].kind = "Branch" -> BranchSet(h, n, p, data)
      [] h[n].kind = "Leaf" -> LeafSet(h, n, p, data)
      [] OTHER -> Raise(h, "AttributeError")

\* Mutant: the new Branch is put below an Extension also when no nibble is
\* shared.
SplitIntoAlwaysWraps(h, n, idx, p, data, own, pos, carried) ==
    LET hb == Alloc(h, NewBranch)
        branch == Len(hb)
        r1 == BranchSet(hb, branch, p, data)
    IN  IF r1.exc # "none" THEN r1
        ELSE LET hs == Alloc(r1.heap, ListCell(SliceFrom(Items(r1.heap, own), pos)))
                 r2 == BranchSet(hs, branch, Len(hs), carried)
             IN  IF r2.exc # "none" THEN r2
                 ELSE IF pos >= 0
                 THEN LET hn == Alloc(r2.heap, ListCell(SliceTo(Items(r2.heap, own), pos)))
                          he == Alloc(hn, NewExtension(Len(hn), branch))
                      IN  Ret([he EXCEPT ![n].children[idx] = Len(he)], None)
                 ELSE Ret([r2.heap EXCEPT ![n].children[idx] = branch], None)

\* The tail shared by both split cases: a fresh Branch receives (path, data),
\* then (rest, carried); the slot idx of n is then linked to the Branch,
\* through a fresh Extension over own[:pos] when pos > 0.
\* own is the address of the stored list (child.path or child.suffix).
SplitInto(h, n, idx, p, data, own, pos, carried) ==
    LET hb == Alloc(h, NewBranch)
        branch == Len(hb)
        r1 == BranchSet(hb, branch, p, data)
    IN  IF r1.exc # "none" THEN r1
        ELSE LET hs == Alloc(r1.heap, ListCell(SliceFrom(Items(r1.heap, own), pos)))
                 r2 == BranchSet(hs, branch, Len(hs), carried)
             IN  IF r2.exc # "none" THEN r2
                 ELSE IF pos > 0
                 THEN LET hn == Alloc(r2.heap, ListCell(SliceTo(Items(r2.heap, own), pos)))
                          he == Alloc(hn, NewExtension(Len(hn), branch))
                      IN  Ret([he EXCEPT ![n].children[idx] = Len(he)], None)
                 ELSE Ret([r2.heap EXCEPT ![n].children[idx] = branch], None)

\* Branch.set, child is an Extension (lines 60-77)
BranchSetExtension(h, n, idx, child, p, data) ==
    LET lp == PrefixLoop(h, p, h[child].path, 0)
        h1 == lp.heap
    IN  IF Len(Items(h1, h1[child].path)) = lp.pos
        THEN NodeSet(h1, h1[child].child, p, data)
        ELSE SplitInto(h1, n, idx, p, data, h1[child].path, lp.pos,
                       PyRef(h1[child].child))

\* Mutant: the exact-match test forgets that the path must be used up.
BranchSetLeafAnyRest(h, n, idx, child, p, data) ==
    LET lp == PrefixLoop(h, p, h[child].suffix, 0)
        h1 == lp.heap
    IN  IF Len(Items(h1, h1[child].suffix)) = lp.pos
        THEN Ret([h1 EXCEPT ![child].data = data], None)
        ELSE SplitInto(h1, n, idx, p, data, h1[child].suffix, lp.pos,
                       h1[child].data)

\* Mutant: the split re-inserts the incoming value where the Leaf's value
\* belongs.
BranchSetLeafCarriesNew(h, n, idx, child, p, data) ==
    LET lp == PrefixLoop(h, p, h[child].suffix, 0)
        h1 == lp.heap
    IN  IF Len(Items(h1, h1[child].suffix)) = lp.pos /\ Len(Items(h1, p)) = 0
        THEN Ret([h1 EXCEPT ![child].data = data], None)
        ELSE SplitInto(h1, n, idx, p, data, h1[child].suffix, lp.pos, data)

\* Branch.set, child is a Leaf (lines 79-96)
BranchSetLeaf(h, n, idx, child, p, data) ==
    LET lp == PrefixLoop(h, p, h[child].suffix, 0)
        h1 == lp.heap
    IN  IF Len(Items(h1, h1[child].suffix)) = lp.pos /\ Len(Items(h1, p)) = 0
        THEN Ret([h1 EXCEPT ![child].data = data], None)
        ELSE SplitInto(h1, n, idx, p, data, h1[child].suffix, lp.pos,
                       h1[child].data)

\* Branch.set
BranchSet(h, n, p, data) ==
    IF h[n].hash # None THEN Raise(h, "AssertionError")
    ELSE IF Len(Items(h, p)) = 0 THEN Ret([h EXCEPT ![n].data = data], None)
    ELSE LET idx == Head(Items(h, p))
             h1 == Pop0(h, p)
             child == h1[n].children[idx]
         IN  IF child = 0
             THEN LET h2 == Alloc(h1, NewLeaf(p, data))
                  IN  Ret([h2 EXCEPT ![n].children[idx] = Len(h2)], None)
             ELSE CASE h1[child].kind = "Branch" -> BranchSet(h1, child, p, data)
                    [] h1[child].kind = "Extension" ->
                           BranchSetExtension(h1, n, idx, child, p, data)
                    [] h1[child].kind = "Leaf" ->
                           BranchSetLeaf(h1, n, idx, child, p, data)
                    [] OTHER -> Raise(h1, "RuntimeError")

\* ------------------------------------------------------------------ seal
\* rlp.encode of a non-negative int: its big-endian bytes without leading
\* zero bytes, so that 0 serializes as the empty byte string.
RECURSIVE BigEndian(_)
BigEndian(n) == IF n = 0 THEN << >> ELSE BigEndian(n \div 256) \o <<n % 256>>

\* rlp.encode finds a serializer for ints, bytes and sequences of those only.
RECURSIVE Encodable(_)
Encodable(x) ==
    CASE x.t \in {"int", "bytes", "digest"} -> TRUE
      [] x.t = "list" -> \A i \in 1..Len(x.items) : Encodable(x.items[i])
      [] OTHER -> FALSE

\* rlp.encode as the tree of byte strings and lists it serializes (the
\* length-prefixed serialization of that tree is one-to-one).
RECURSIVE RlpItem(_)
RlpItem(x) ==
    CASE x.t = "int" -> [t |-> "str", b |-> BigEndian(x.v)]
      [] x.t = "bytes" -> [t |-> "str", b |-> x.b]
      [] x.t = "digest" -> [t |-> "str32", d |-> x]
      [] OTHER -> [t |-> "list", items |-> [i \in 1..Len(x.items) |-> RlpItem(x.items[i])]]

\* sha3_256(encoded).digest(), collision-free
Digest(encoded) == [t |-> "digest", pre |-> encoded]

\* a stored path list as the list of ints rlp.encode is handed
IntList(h, l) == PyList([i \in 1..Len(Items(h, l)) |-> PyInt(Items(h, l)[i])])

\* Mutant: the digest is returned and not kept in self.hash.
HashNoStore(h, n, to_hash) ==
    IF ~Encodable(PyList(to_hash)) THEN Raise(h, "TypeError")
    ELSE Ret(h, Digest(RlpItem(PyList(to_hash))))

\* Mutant: the hasher is fed the node's earlier hash before its content.
HashChained(h, n, to_hash) ==
    IF ~Encodable(PyList(to_hash)) THEN Raise(h, "TypeError")
    ELSE LET d == Digest([prev |-> h[n].hash, enc |-> RlpItem(PyList(to_hash))])
         IN  Ret([h EXCEPT ![n].hash = d], d)

\* encode, hash, store in self.hash, return (the last five lines of each seal)
HashAndStore(h, n, to_hash) ==
    IF ~Encodable(PyList(to_hash)) THEN Raise(h, "TypeError")
    ELSE LET d == Digest(RlpItem(PyList(to_hash)))
         IN  Ret([h EXCEPT ![n].hash = d], d)

RECURSIVE NodeSeal(_, _)

\* Leaf.seal
LeafSeal(h, n) == HashAndStore(h, n, <<IntList(h, h[n].suffix), h[n].data>>)

\* Extension.seal
ExtensionSeal(h, n) ==
    LET r == NodeSeal(h, h[n].child)
    IN  IF r.exc # "none" THEN r
        ELSE HashAndStore(r.heap, n, <<IntList(r.heap, r.heap[n].path), r.ret>>)

\* the loop of Branch.seal over self.children, from slot i on; ret is to_hash
RECURSIVE SealChildren(_, _, _, _)
SealChildren(h, n, i, to_hash) ==
    IF i = BRANCHING_FACTOR THEN Ret(h, to_hash)
    ELSE IF h[n].children[i] = 0
    THEN SealChildren(h, n, i + 1, Append(to_hash, PyInt(0)))
    ELSE LET r == NodeSeal(h, h[n].children[i])
         IN  IF r.exc # "none" THEN r
             ELSE SealChildren(r.heap, n, i + 1, Append(to_hash, r.ret))

\* Branch.seal
BranchSeal(h, n) ==
    LET r == SealChildren(h, n, 0, << >>)
    IN  IF r.exc # "none" THEN r
        ELSE HashAndStore(r.heap, n,
                 Append(r.ret, IF r.heap[n].data = None THEN PyInt(0)
                                                       ELSE r.heap[n].data))

\* child.seal(): dispatch on the class of the object
NodeSeal(h, n) ==
    CASE h[n].kind = "Branch" -> BranchSeal(h, n)
      [] h[n].kind = "Extension" -> ExtensionSeal(h, n)
      [] h[n].kind = "Leaf" -> LeafSeal(h, n)
      [] OTHER -> Raise(h, "AttributeError")

\* ----------------------------------------------------------------- clone
RECURSIVE NodeClone(_, _)

\* Leaf.clone: the new Leaf holds the same suffix list object and data
LeafClone(h, n) ==
    LET h1 == Alloc(h, NewLeaf(h[n].suffix, h[n].data))
    IN  Ret(h1, PyRef(Len(h1)))

\* Extension.clone: the new Extension holds the same path list object
ExtensionClone(h, n) ==
    LET r == NodeClone(h, h[n].child)
    IN  IF r.exc # "none" THEN r
        ELSE LET h1 == Alloc(r.heap, NewExtension(r.heap[n].path, r.ret.id))
             IN  Ret(h1, PyRef(Len(h1)))

\* Mutant: the new Branch is handed the child itself, not a clone of it.
CloneChildrenShared(h, n, newbranch, i) ==
    Ret([h EXCEPT ![newbranch].children = h[n].children], None)

\* the loop of Branch.clone over enumerate(self.children), from slot i on
RECURSIVE CloneChildren(_, _, _, _)
CloneChildren(h, n, newbranch, i) ==
    IF i = BRANCHING_FACTOR THEN Ret(h, None)
    ELSE IF h[n].children[i] = 0 THEN CloneChildren(h, n, newbranch, i + 1)
    ELSE LET r == NodeClone(h, h[n].children[i])
         IN  IF r.exc # "none" THEN r
             ELSE CloneChildren([r.heap EXCEPT ![newbranch].children[i] = r.ret.id],
                                n, newbranch, i + 1)

\* Mutant: the copy also takes the source's hash.
BranchCloneWithHash(h, n) ==
    LET h1 == Alloc(h, NewBranch)
        newbranch == Len(h1)
        r == CloneChildren(h1, n, newbranch, 0)
    IN  IF r.exc # "none" THEN r
        ELSE Ret([r.heap EXCEPT ![newbranch].data = r.heap[n].data,
                                ![newbranch].hash = r.heap[n].hash], PyRef(newbranch))

\* Branch.clone
BranchClone(h, n) ==
    LET h1 == Alloc(h, NewBranch)
        newbranch == Len(h1)
        r == CloneChildren(h1, n, newbranch, 0)
    IN  IF r.exc # "none" THEN r
        ELSE Ret([r.heap EXCEPT ![newbranch].data = r.heap[n].data], PyRef(newbranch))

\* child.clone(): dispatch on the class of the object
NodeClone(h, n) ==
    CASE h[n].kind = "Branch" -> BranchClone(h, n)
      [] h[n].kind = "Extension" -> ExtensionClone(h, n)
      [] h[n].kind = "Leaf" -> LeafClone(h, n)
      [] OTHER -> Raise(h, "AttributeError")

\* Branch.is_sealed
BranchIsSealed(h, n) == h[n].hash # None

\* ---------------------------------------------------------- PatriciaTree
\* A PatriciaTree object holds one field, root, which is never reassigned:
\* a tree is modelled by the address of its root.

\* PatriciaTree.is_sealed
PatriciaTreeIsSealed(h, root) == BranchIsSealed(h, root)

\* PatriciaTree.set
PatriciaTreeSet(h, root, key, data) ==
    IF PatriciaTreeIsSealed(h, root) THEN Raise(h, "RuntimeError")
    ELSE LET h1 == Alloc(h, ListCell(bytes_to_nibbles(key)))
         IN  NodeSet(h1, root, Len(h1), data)

\* PatriciaTree.get
PatriciaTreeGet(h, root, key) ==
    LET h1 == Alloc(h, ListCell(bytes_to_nibbles(key)))
    IN  NodeGet(h1, root, Len(h1))

\* PatriciaTree.seal
PatriciaTreeSeal(h, root) == NodeSeal(h, root)

\* PatriciaTree.clone: PatriciaTree(prev=self), whose root is prev.root.clone()
PatriciaTreeClone(h, root) == NodeClone(h, root)

\* PatriciaTree(): the root is a fresh Branch
PatriciaTreeNew(h) ==
    LET h1 == Alloc(h, NewBranch)
    IN  Ret(h1, PyRef(Len(h1)))

\* ------------------------------------------------------ reference counting
\* cell holds a reference to the object at address a
RefersTo(cell, a) ==
    CASE cell.kind = "Branch" ->
             \/ \E i \in DOMAIN cell.children : cell.children[i] = a
             \/ cell.data = PyRef(a)
      [] cell.kind = "Extension" -> cell.path = a \/ cell.child = a
      [] cell.kind = "Leaf" -> cell.suffix = a \/ cell.data = PyRef(a)
      [] OTHER -> FALSE

\* When a call returns, its locals are dropped and an object nothing refers
\* to any more is freed: the cells at the end of the heap that neither a
\* tree nor another cell refers to are released.
RECURSIVE Reclaim(_, _)
Reclaim(h, roots) ==
    IF /\ Len(h) > 0
       /\ \A i \in 1..Len(roots) : roots[i] # Len(h)
       /\ \A a \in 1..(Len(h) - 1) : ~RefersTo(h[a], Len(h))
    THEN Reclaim(SubSeq(h, 1, Len(h) - 1), roots)
    ELSE h

\* ------------------------------------------------------------------ state
VARIABLES
    heap,     \* the Python heap: a sequence of cells
    trees,    \* the PatriciaTree objects made so far: the address of each root
    last,     \* the last call that may change a tree (new, set, seal, clone)
              \* and its outcome, as its caller saw it
    written,  \* per tree, what the caller stored: key -> value of the last
              \* accepted set (a fork starts with its source's), None if never set
    sealRet,  \* per tree, the hash the first returning seal gave (None before)
    nsets,    \* the number of set calls so far
    nafter    \* the number of set calls since the first fork

vars == <<heap, trees, last, written, sealRet, nsets, nafter>>

RECURSIVE ByteStrings(_)
ByteStrings(n) ==
    IF n = 0 THEN {<< >>}
    ELSE ByteStrings(n - 1)
            \cup {Append(k, b) : k \in {x \in ByteStrings(n - 1) : Len(x) = n - 1},
                                 b \in KeyBytes}

Keys == ByteStrings(MaxKeyLen)

PyBool(b) == [t |-> "bool", v |-> b]
\* again: the call is a seal of a trie on which seal has returned before
Call(op, t, key, val, r) ==
    [op |-> op, t |-> t, key |-> key, val |-> val, ret |-> r.ret, exc |-> r.exc,
     again |-> FALSE]

Init ==
    LET r == PatriciaTreeNew(<< >>)
    IN  /\ heap = r.heap
        /\ trees = <<r.ret.id>>
        /\ last = Call("new", 1, << >>, None, r)
        /\ written = <<[k \in Keys |-> None]>>
        /\ sealRet = <<None>>
        /\ nsets = 0
        /\ nafter = 0

\* Each action hands the outcome r of the call to the operator that
\* records it.

SetReturns(t, key, v, r) ==
    /\ heap' = Reclaim(r.heap, trees)
    /\ last' = Call("set", t, key, PyBytes(v), r)
    /\ written' = IF r.exc = "none"
                  THEN [written EXCEPT ![t][key] = PyBytes(v)]
                  ELSE written

Set(t, key, v) ==
    /\ nsets < MaxSets
    /\ Len(trees) > 1 => nafter < MaxForkSets
    /\ nsets' = nsets + 1
    /\ nafter' = IF Len(trees) > 1 THEN nafter + 1 ELSE nafter
    /\ SetReturns(t, key, v, PatriciaTreeSet(heap, trees[t], key, PyBytes(v)))
    /\ UNCHANGED <<trees, sealRet>>

\* get and is_sealed hand their caller a result and are not recorded in last
Get(t, key) ==
    /\ heap' = Reclaim(PatriciaTreeGet(heap, trees[t], key).heap, trees)
    /\ UNCHANGED <<trees, last, written, sealRet, nsets, nafter>>

IsSealed(t) ==
    /\ PatriciaTreeIsSealed(heap, trees[t]) \in BOOLEAN
    /\ UNCHANGED vars

SealReturns(t, r) ==
    /\ heap' = Reclaim(r.heap, trees)
    /\ last' = [Call("seal", t, << >>, None, r) EXCEPT !.again = sealRet[t] # None]
    /\ sealRet' = IF r.exc = "none" /\ sealRet[t] = None
                  THEN [sealRet EXCEPT ![t] = r.ret]
                  ELSE sealRet

Seal(t) ==
    /\ SealReturns(t, PatriciaTreeSeal(heap, trees[t]))
    /\ UNCHANGED <<trees, written, nsets, nafter>>

CloneReturns(t, r) ==
    /\ r.exc = "none"
    /\ trees' = Append(trees, r.ret.id)
    /\ heap' = Reclaim(r.heap, Append(trees, r.ret.id))
    /\ last' = Call("clone", t, << >>, None, r)

Clone(t) ==
    /\ Len(trees) < MaxTrees
    /\ CloneReturns(t, PatriciaTreeClone(heap, trees[t]))
    /\ written' = Append(written, written[t])
    /\ sealRet' = Append(sealRet, None)
    /\ UNCHANGED <<nsets, nafter>>

SetAny == \E t \in 1..Len(trees), key \in Keys, v \in Values : Set(t, key, v)
GetAny == \E t \in 1..Len(trees), key \in Keys : Get(t, key)
SealAny == \E t \in 1..Len(trees) : Seal(t)
IsSealedAny == \E t \in 1..Len(trees) : IsSealed(t)
CloneAny == \E t \in 1..Len(trees) : Clone(t)

\* one trie, never forked
Next == SetAny \/ GetAny \/ SealAny \/ IsSealedAny

Spec == Init /\ [][Next]_vars

\* tries and their forks
NextFork == SetAny \/ GetAny \/ SealAny \/ IsSealedAny \/ CloneAny

SpecFork == Init /\ [][NextFork]_vars

\* One trie on which set is also called right after seal was called,
\* whether seal returned or raised.
SetLate(t, key, v) ==
    /\ last.op = "seal" /\ last.t = t
    /\ nsets >= MaxSets
    /\ nafter < MaxLateSets
    /\ nsets' = nsets + 1
    /\ nafter' = nafter + 1
    /\ SetReturns(t, key, v, PatriciaTreeSet(heap, trees[t], key, PyBytes(v)))
    /\ UNCHANGED <<trees, sealRet>>

SetLateAny == \E t \in 1..Len(trees), key \in Keys, v \in Values : SetLate(t, key, v)

NextLate == SetAny \/ SetLateAny \/ GetAny \/ SealAny \/ IsSealedAny

SpecLate == Init /\ [][NextLate]_vars

\* Two tries, both empty at first.  The first is given a mapping, one
\* new key per set; the second is then given the same mapping, one new key
\* per set, in any order; once both hold the mapping, seal is called at
\* most once on each, the first trie before the second.
InitOrder ==
    LET r1 == PatriciaTreeNew(<< >>)
        r2 == PatriciaTreeNew(r1.heap)
    IN  /\ heap = r2.heap
        /\ trees = <<r1.ret.id, r2.ret.id>>
        /\ last = Call("new", 2, << >>, None, r2)
        /\ written = <<[k \in Keys |-> None], [k \in Keys |-> None]>>
        /\ sealRet = <<None, None>>
        /\ nsets = 0
        /\ nafter = 0

Held(t) == {k \in Keys : written[t][k] # None}

SetFirst(key, v) ==
    /\ Held(2) = {}
    /\ key \notin Held(1)
    /\ Cardinality(Held(1)) < MaxOrderKeys
    /\ nsets' = nsets + 1
    /\ SetReturns(1, key, v, PatriciaTreeSet(heap, trees[1], key, PyBytes(v)))
    /\ UNCHANGED <<trees, sealRet, nafter>>

SetSecond(key) ==
    /\ key \in Held(1) \ Held(2)
    /\ nsets' = nsets + 1
    /\ SetReturns(2, key, written[1][key].b,
                  PatriciaTreeSet(heap, trees[2], key, written[1][key]))
    /\ UNCHANGED <<trees, sealRet, nafter>>

SealBuilt(t) ==
    /\ Held(1) # {}
    /\ last.op = "seal" => last.t < t
    /\ written[1] = written[2]
    /\ Seal(t)

SetFirstAny == \E key \in Keys, v \in Values : SetFirst(key, v)
SetSecondAny == \E key \in Keys : SetSecond(key)
SealBuiltAny == \E t \in 1..Len(trees) : SealBuilt(t)

NextOrder == SetFirstAny \/ SetSecondAny \/ SealBuiltAny \/ GetAny \/ IsSealedAny

SpecOrder == InitOrder /\ [][NextOrder]_vars

\* bytes_to_nibbles on its own: a byte string is drawn, the function is
\* called on it, and the list it returns is on the heap.
RECURSIVE BytesOver(_, _)
BytesOver(alphabet, n) ==
    IF n = 0 THEN {<< >>}
    ELSE BytesOver(alphabet, n - 1)
            \cup {Append(k, b) : k \in {x \in BytesOver(alphabet, n - 1) : Len(x) = n - 1},
                                 b \in alphabet}

CodecKeys == BytesOver(CodecBytes, MaxCodecLen)

InitCodec ==
    /\ heap = << >>
    /\ trees = << >>
    /\ \E key \in CodecKeys : last = Call("arg", 0, key, None, Ret(heap, None))
    /\ written = << >>
    /\ sealRet = << >>
    /\ nsets = 0
    /\ nafter = 0

BytesToNibbles ==
    /\ last.op = "arg"
    /\ heap' = Alloc(heap, ListCell(bytes_to_nibbles(last.key)))
    /\ last' = Call("bytes_to_nibbles", 0, last.key, None, Ret(heap', PyRef(Len(heap'))))
    /\ UNCHANGED <<trees, written, sealRet, nsets, nafter>>

NextCodec == BytesToNibbles

SpecCodec == InitCodec /\ [][NextCodec]_vars

\* ================================================================ claims
\* what get(key) hands its caller on the tree rooted at root
GetRes(h, root, key) ==
    LET r == PatriciaTreeGet(h, root, key)
    IN  IF r.exc = "none" THEN r.ret ELSE [t |-> "raise", exc |-> r.exc]

\* the Branch, Extension and Leaf objects of the tree under node n
RECURSIVE Nodes(_, _)
Nodes(h, n) ==
    CASE h[n].kind = "Branch" ->
             {n} \cup UNION {Nodes(h, h[n].children[i]) :
                                i \in {j \in DOMAIN h[n].children : h[n].children[j] # 0}}
      [] h[n].kind = "Extension" -> {n} \cup Nodes(h, h[n].child)
      [] OTHER -> {n}

\* no node of the tree carries a hash: seal was never run on it
NeverSealed(h, root) == \A n \in Nodes(h, root) : h[n].hash = None
AllHashed(h, root) == \A n \in Nodes(h, root) : h[n].hash # None
HasExtension(h, root) == \E n \in Nodes(h, root) : h[n].kind = "Extension"

\* C1: read-after-write.  On a trie that was built by set and fork calls
\* only, set(k, v) is accepted and a get(k) that follows it returns v.
C1_ReadAfterWrite ==
    (last.op = "set" /\ NeverSealed(heap, trees[last.t]))
        => /\ last.exc = "none"
           /\ GetRes(heap, trees[last.t], last.key) = last.val

\* the third set of a trie went below an Extension and is read back
C1_Witness ==
    /\ last.op = "set" /\ last.exc = "none" /\ nsets = 3
    /\ NeverSealed(heap, trees[last.t])
    /\ HasExtension(heap, trees[last.t])
    /\ GetRes(heap, trees[last.t], last.key) = last.val

\* C2: a set only affects its own key.  Across every set call, get(k') is
\* the same before and after for every key k' other than the key set.
C2_SetFrame ==
    [][(nsets' # nsets /\ last'.op = "set") =>
          \A k \in Keys \ {last'.key} :
              GetRes(heap', trees'[last'.t], k) = GetRes(heap, trees[last'.t], k)]_vars

\* C3: no spurious hits.  get(k) is absent for every key never passed to
\* set, and is otherwise the value the caller passed to set for that key.
C3_NoSpuriousHits ==
    \A t \in 1..Len(trees) : \A k \in Keys :
        GetRes(heap, trees[t], k) = written[t][k]

\* C4: mutate-after-seal rejection.  Once seal has returned on a trie, a
\* set on it raises and changes nothing: the heap is as before, the trie
\* is still sealed, every get is as before, and sealing again returns the
\* hash the first seal returned.
C4_SealedRejectsSet ==
    [][(nsets' # nsets /\ last'.op = "set" /\ sealRet[last'.t] # None) =>
          /\ last'.exc # "none"
          /\ heap' = heap
          /\ PatriciaTreeIsSealed(heap', trees'[last'.t])
          /\ \A k \in Keys :
                 GetRes(heap', trees'[last'.t], k) = GetRes(heap, trees[last'.t], k)
          /\ PatriciaTreeSeal(heap', trees'[last'.t]).exc = "none"
          /\ PatriciaTreeSeal(heap', trees'[last'.t]).ret = sealRet[last'.t]]_vars

\* a set of a key that holds nothing was rejected on a sealed trie
C4_Witness ==
    /\ last.op = "set" /\ last.exc = "RuntimeError"
    /\ sealRet[last.t] # None
    /\ written[last.t][last.key] = None
    /\ GetRes(heap, trees[last.t], last.key) = None
    /\ \E k \in Keys : written[last.t][k] # None

\* C9: sealing always succeeds and seals the whole tree.  A seal call
\* returns a hash, after which is_sealed() is true and every node of the
\* trie carries a hash.
C9_SealSucceeds ==
    last.op = "seal" =>
        /\ last.exc = "none"
        /\ last.ret.t = "digest"
        /\ PatriciaTreeIsSealed(heap, trees[last.t])
        /\ AllHashed(heap, trees[last.t])

\* C10: seal is idempotent.  Once seal has returned h on a trie, every
\* later seal on it returns h and leaves the hash of every node as it was.
C10_SealIdempotent ==
    [][(last' # last /\ last'.op = "seal" /\ sealRet[last'.t] # None) =>
          /\ last'.exc = "none"
          /\ last'.ret = sealRet[last'.t]
          /\ Len(heap') = Len(heap)
          /\ \A n \in Nodes(heap, trees[last'.t]) : heap'[n].hash = heap[n].hash]_vars

\* a trie holding an Extension was sealed, a set on it was rejected, and it
\* was sealed again
C10_Witness ==
    /\ last.op = "seal" /\ last.again /\ last.exc = "none"
    /\ sealRet[last.t] = last.ret
    /\ nsets = 3
    /\ HasExtension(heap, trees[last.t])
    /\ \E k \in Keys : written[last.t][k] = None

\* C5: fork independence.  A set on one trie leaves every get on every
\* other trie (the one it was forked from, or its fork) as it was, and a
\* seal of one trie leaves is_sealed() of every other trie as it was.
C5_ForkIndependence ==
    [][((nsets' # nsets \/ last' # last \/ heap' # heap) /\ last'.op \in {"set", "seal"}) =>
          \A u \in (1..Len(trees)) \ {last'.t} :
              /\ \A k \in Keys :
                     GetRes(heap', trees'[u], k) = GetRes(heap, trees[u], k)
              /\ PatriciaTreeIsSealed(heap', trees'[u])
                     = PatriciaTreeIsSealed(heap, trees[u])]_vars

\* after the fork, a set on one of the two tries overwrote a key both hold,
\* and the two tries now disagree on it; one of them is sealed, one is not
C5_Witness ==
    /\ Len(trees) = 2
    /\ last.op = "set" /\ last.exc = "none" /\ nafter = 1
    /\ written[1][last.key] # None /\ written[2][last.key] # None
    /\ GetRes(heap, trees[1], last.key) # GetRes(heap, trees[2], last.key)
    /\ \E t \in 1..2 : PatriciaTreeIsSealed(heap, trees[t])
    /\ \E t \in 1..2 : ~PatriciaTreeIsSealed(heap, trees[t])

\* C6: a fork copies the mapping into an open trie.  clone() of a trie,
\* open or sealed, returns a new trie that is not sealed, on which get(k)
\* is what get(k) was on the source for every key k, and on which every
\* set is accepted.
C6_ForkCopies ==
    [][(trees' # trees /\ last'.op = "clone") =>
          /\ last'.exc = "none"
          /\ Len(trees') = Len(trees) + 1
          /\ ~PatriciaTreeIsSealed(heap', trees'[Len(trees')])
          /\ \A k \in Keys :
                 GetRes(heap', trees'[Len(trees')], k) = GetRes(heap, trees[last'.t], k)
          /\ \A k \in Keys : \A v \in Values :
                 PatriciaTreeSet(heap', trees'[Len(trees')], k, PyBytes(v)).exc = "none"]_vars

\* a sealed trie holding an Extension was forked
C6_Witness ==
    /\ last.op = "clone" /\ last.exc = "none"
    /\ Len(trees) = 2
    /\ sealRet[last.t] # None
    /\ HasExtension(heap, trees[last.t])
    /\ HasExtension(heap, trees[2])
    /\ ~PatriciaTreeIsSealed(heap, trees[2])

\* what seal() hands its caller on the tree rooted at root
SealRes(h, root) ==
    LET r == PatriciaTreeSeal(h, root)
    IN  IF r.exc = "none" THEN r.ret ELSE [t |-> "raise", exc |-> r.exc]

\* C7: root hash determinism.  Two tries that were empty and were given
\* the same mapping by set, in whatever orders, both seal without error,
\* and to the same root hash.
C7_HashDeterminism ==
    written[1] = written[2] =>
        /\ SealRes(heap, trees[1]).t = "digest"
        /\ SealRes(heap, trees[2]).t = "digest"
        /\ SealRes(heap, trees[1]) = SealRes(heap, trees[2])

\* C8: confluence of get.  Two tries that were empty and were given the
\* same keys with the same values, in whatever orders, answer every get
\* alike.
C8_GetConfluence ==
    written[1] = written[2] =>
        \A k \in Keys : GetRes(heap, trees[1], k) = GetRes(heap, trees[2], k)

\* C11: absent and empty-but-present never collide.  When a set stores the
\* empty byte string at a key that held nothing, on a trie that seal would
\* have sealed, seal of the trie after the set does not return the hash
\* seal would have returned before it.
C11_AbsentVsEmpty ==
    [][(/\ nsets' # nsets /\ last'.op = "set" /\ last'.exc = "none"
        /\ last'.val = PyBytes(<< >>)
        /\ GetRes(heap, trees[last'.t], last'.key) = None
        /\ SealRes(heap, trees[last'.t]).t = "digest") =>
          SealRes(heap', trees'[last'.t]) # SealRes(heap, trees[last'.t])]_vars

\* C12: nibble codec.  bytes_to_nibbles(key) is a list of 2 * len(key)
\* values in 0..15 whose positions 2i and 2i+1 hold key[i] mod 16 and
\* key[i] div 16, and no other key is given the same list.
C12_NibbleCodec ==
    last.op = "bytes_to_nibbles" =>
        LET key == last.key
            out == Items(heap, last.ret.id)
        IN  /\ Len(out) = 2 * Len(key)
            /\ \A j \in 1..Len(out) : out[j] \in 0..15
            /\ \A i \in 1..Len(key) : /\ out[2 * i - 1] = key[i] % 16
                                      /\ out[2 * i] = key[i] \div 16
            /\ \A other \in CodecKeys \ {key} : bytes_to_nibbles(other) # out

\* a key of the longest length, with two bytes that are each other's
\* nibble swap, was converted
C12_Witness ==
    /\ last.op = "bytes_to_nibbles"
    /\ Len(last.key) = MaxCodecLen
    /\ last.key[1] = 15 /\ last.key[2] = 240
    /\ Items(heap, last.ret.id)[1] = 15 /\ Items(heap, last.ret.id)[2] = 0
    /\ Items(heap, last.ret.id)[3] = 0 /\ Items(heap, last.ret.id)[4] = 15

\* C13: an Extension split keeps the old subtree linked as a node.  In
\* every state, each occupied child slot of a Branch of a trie holds a
\* Branch, an Extension or a Leaf, the value of every Leaf is a byte string
\* and the value stored on a Branch is a byte string or absent: never a node.
C13_SubtreeStaysNode ==
    \A t \in 1..Len(trees) : \A n \in Nodes(heap, trees[t]) :
        CASE heap[n].kind = "Branch" ->
                 /\ \A i \in DOMAIN heap[n].children :
                        heap[n].children[i] # 0 =>
                            heap[heap[n].children[i]].kind \in {"Branch", "Extension", "Leaf"}
                 /\ heap[n].data.t \in {"None", "bytes"}
          [] heap[n].kind = "Leaf" -> heap[n].data.t = "bytes"
          [] OTHER -> TRUE

\* the number of leading items two sequences share
RECURSIVE Shared(_, _)
Shared(a, b) ==
    IF a = << >> \/ b = << >> \/ Head(a) # Head(b) THEN 0
    ELSE 1 + Shared(Tail(a), Tail(b))

\* Where a set with nibble path p, entering Branch n, ends: the node it
\* reaches and how.  walked is the path from the root to n.
\*   "data"      the path ends on a Branch (its directly-stored value)
\*   "free"      the slot is empty
\*   "leaf"      the slot holds a Leaf: parent, idx, node, rest (the path
\*               left after idx), walked (the path up to and with idx)
\*   "extension" the path leaves the stored path of an Extension
\*   "other"     anything else
RECURSIVE Locate(_, _, _, _)
Locate(h, n, p, walked) ==
    IF p = << >> THEN [hit |-> "data", node |-> n]
    ELSE LET idx == Head(p)
             rest == Tail(p)
             child == h[n].children[idx]
             upto == Append(walked, idx)
         IN  IF child = 0 THEN [hit |-> "free", parent |-> n, idx |-> idx]
             ELSE CASE h[child].kind = "Branch" -> Locate(h, child, rest, upto)
                    [] h[child].kind = "Leaf" ->
                           [hit |-> "leaf", parent |-> n, idx |-> idx, node |-> child,
                            rest |-> rest, walked |-> upto]
                    [] h[child].kind = "Extension" ->
                           LET own == Items(h, h[child].path)
                               k == Shared(rest, own)
                           IN  IF k = Len(own) /\ h[h[child].child].kind = "Branch"
                               THEN Locate(h, h[child].child, SliceFrom(rest, k),
                                           upto \o own)
                               ELSE [hit |-> "extension", parent |-> n, idx |-> idx,
                                     node |-> child, rest |-> rest, walked |-> upto,
                                     shared |-> k]
                    [] OTHER -> [hit |-> "other"]

\* what root.get(path) hands its caller for a nibble path
GetPath(h, root, path) ==
    LET h1 == Alloc(h, ListCell(path))
        r == NodeGet(h1, root, Len(h1))
    IN  IF r.exc = "none" THEN r.ret ELSE [t |-> "raise", exc |-> r.exc]

\* The two cases of a set that has reached the Leaf at loc.
LeafOverwritten(loc, root, val) ==
    /\ heap'[loc.node].data = val
    /\ heap'[loc.parent].children[loc.idx] = loc.node
    /\ Nodes(heap', root) = Nodes(heap, root)

LeafSplit(loc, root, path, val) ==
    LET suffix == Items(heap, heap[loc.node].suffix)
        k == Shared(loc.rest, suffix)
        c == heap'[loc.parent].children[loc.idx]
    IN  /\ c > Len(heap)
        /\ IF k > 0
           THEN /\ heap'[c].kind = "Extension"
                /\ Items(heap', heap'[c].path) = SubSeq(suffix, 1, k)
                /\ heap'[c].child > Len(heap)
                /\ heap'[heap'[c].child].kind = "Branch"
           ELSE heap'[c].kind = "Branch"
        /\ GetPath(heap', root, path) = val
        /\ GetPath(heap', root, loc.walked \o suffix) = heap[loc.node].data

\* C14: a Leaf split keeps both values.  When a set reaches a Leaf child:
\* if the path left equals the Leaf's suffix, the Leaf's value is
\* overwritten and the trie has the nodes it had; otherwise the slot holds
\* a new Branch, below a new Extension over the k shared nibbles iff k > 0,
\* and get returns the incoming value at the key set and the Leaf's old
\* value at the Leaf's key.
C14_LeafSplitKeepsBoth ==
    [][(nsets' # nsets /\ last'.op = "set" /\ last'.exc = "none") =>
          LET root == trees[last'.t]
              path == bytes_to_nibbles(last'.key)
              loc == Locate(heap, root, path, << >>)
          IN  loc.hit = "leaf" =>
                  IF loc.rest = Items(heap, heap[loc.node].suffix)
                  THEN LeafOverwritten(loc, root, last'.val)
                  ELSE LeafSplit(loc, root, path, last'.val)]_vars

\* a Leaf was split under shared nibbles and one of the two values landed
\* in the directly-stored slot of the new Branch
C14_Witness ==
    /\ last.op = "set" /\ last.exc = "none"
    /\ NeverSealed(heap, trees[last.t])
    /\ \E e \in Nodes(heap, trees[last.t]) :
           /\ heap[e].kind = "Extension"
           /\ heap[heap[e].child].kind = "Branch"
           /\ heap[heap[e].child].data.t = "bytes"
           /\ \E i \in DOMAIN heap[heap[e].child].children :
                  /\ heap[heap[e].child].children[i] # 0
                  /\ heap[heap[heap[e].child].children[i]].kind = "Leaf"
    /\ GetRes(heap, trees[last.t], last.key) = last.val

\* the content of the node at address n: its fields, with the items of its
\* suffix or path list
Content(h, n) ==
    CASE h[n].kind = "Leaf" -> <<h[n], Items(h, h[n].suffix)>>
      [] h[n].kind = "Extension" -> <<h[n], Items(h, h[n].path)>>
      [] OTHER -> <<h[n]>>

\* C15: hash permanence.  No step clears or changes the hash of a node of
\* a trie that carries one, nor changes that node's value, suffix or path,
\* or child slots.
C15_HashPermanence ==
    [][heap' # heap =>
          \A t \in 1..Len(trees) : \A n \in Nodes(heap, trees[t]) :
              (heap[n].hash # None /\ n <= Len(heap')) =>
                  Content(heap', n) = Content(heap, n)]_vars

\* C16: Extension well-formedness.  Every Extension of every trie has a
\* non-empty path and a Branch as its child.
C16_ExtensionWellFormed ==
    \A t \in 1..Len(trees) : \A n \in Nodes(heap, trees[t]) :
        heap[n].kind = "Extension" =>
            /\ Len(Items(heap, heap[n].path)) > 0
            /\ heap[heap[n].child].kind = "Branch"

\* a fork holds an Extension, made by clone, and its source holds a Branch
\* that a split put directly into a slot of a Branch, below the root
C16_Witness ==
    /\ Len(trees) = 2
    /\ HasExtension(heap, trees[2])
    /\ \E n \in Nodes(heap, trees[1]) \ {trees[1]} :
           /\ heap[n].kind = "Branch"
           /\ \E b \in Nodes(heap, trees[1]) :
                  /\ heap[b].kind = "Branch"
                  /\ \E i \in DOMAIN heap[b].children : heap[b].children[i] = n

\* C17: sealedness is all-or-nothing.  In every state, either no node of a
\* trie carries a hash or every node of it does; a trie whose root carries
\* no hash has no hashed node.
C17_AllOrNothing ==
    \A t \in 1..Len(trees) :
        /\ NeverSealed(heap, trees[t]) \/ AllHashed(heap, trees[t])
        /\ ~PatriciaTreeIsSealed(heap, trees[t]) => NeverSealed(heap, trees[t])

\* the list object a Leaf or Extension holds as suffix or path, and its items
StoredPath(h, n) ==
    IF h[n].kind = "Leaf" THEN <<h[n].suffix, Items(h, h[n].suffix)>>
    ELSE <<h[n].path, Items(h, h[n].path)>>

\* C18: stored paths are never altered and lookups are read-only.  No step
\* changes the suffix of a Leaf or the path of an Extension, and a step that
\* is no set, seal or clone (a get or an is_sealed) leaves the heap as it was.
C18_PathsStable ==
    [][/\ \A a \in 1..Len(heap) :
              (heap[a].kind \in {"Leaf", "Extension"} /\ a <= Len(heap')) =>
                  StoredPath(heap', a) = StoredPath(heap, a)
       /\ (last' = last /\ nsets' = nsets /\ trees' = trees) => heap' = heap]_vars

\* a node of a trie and a node of its fork hold the same list object, and a
\* set after the fork was accepted on a key below an Extension of its trie
C18_Witness ==
    /\ Len(trees) = 2
    /\ last.op = "set" /\ last.exc = "none" /\ nafter = 1
    /\ HasExtension(heap, trees[last.t])
    /\ GetRes(heap, trees[1], last.key) # GetRes(heap, trees[2], last.key)
    /\ \E a \in Nodes(heap, trees[1]) : \E b \in Nodes(heap, trees[2]) :
           /\ heap[a].kind \in {"Leaf", "Extension"}
           /\ heap[b].kind = heap[a].kind
           /\ StoredPath(heap, a) = StoredPath(heap, b)

====
